---- MODULE Spec2Model ----
(***************************************************************************)
(* Model of src/ses_tester/index.js: the address validator isValidEmail,   *)
(* the per-recipient sendEmail, the windowed dispatcher sendBatchEmails    *)
(* and the process entry main.                                             *)
(*                                                                         *)
(* A string is a sequence of one-character strings.  The event loop is     *)
(* modelled by one action per continuation: the synchronous prefix of      *)
(* main, the start of a window (slice + map, which calls sesClient.send    *)
(* for every entry of the window before the first await), the settlement   *)
(* of one send (the provider's answer followed by the .then/.catch push),  *)
(* the resumption after Promise.all, the timer of sleep, and the return.   *)
(*                                                                         *)
(* The fields pos of the result entries and the variables batches,         *)
(* sleepLog, sendCalls and provider are history variables: they record     *)
(* which windows were issued, which timers were set, how often             *)
(* sesClient.send was called per input position and what the provider      *)
(* answered.  They never influence a guard.                                *)
(***************************************************************************)
EXTENDS Integers, Sequences, FiniteSets, TLC

VARIABLES emailList, caller, pc, exitCode, i, batch, results, status,
          sendCalls, provider, batches, sleepLog

\* emailList  main:87, the argument of sendBatchEmails:58
\* caller     "main" when main() (126) runs the dispatcher, "direct" when
\*            sendBatchEmails is called on its own
\* pc         where main / sendBatchEmails stands: "main" (85), "loop" (65),
\*            "awaitAll" (73), "sleeping" (77), "returned" (81), "exited"
\* exitCode   the status of process.exit (91, 98) or of the normal end; -1 while running
\* i, batch, results   the locals of sendBatchEmails (65, 66, 59); a batch is kept
\*            as the list of its input positions, so batch[x] stands for
\*            emailList[batch[x]]
\* status     per input position, the state of its promise in batchPromises:
\*            "pending" (not yet mapped), "inflight" (sesClient.send awaited),
\*            "thrown" (sendEmail threw at 22, handler not yet run), "settled"
\*            (the .then/.catch handler has pushed)
vars == <<emailList, caller, pc, exitCode, i, batch, results, status,
          sendCalls, provider, batches, sleepLog>>

----------------------------------------------------------------------------
(* Bounds of the model *)

\* largest argument list given to main
MaxN == 5
\* largest list handed directly to sendBatchEmails
MaxDirectN == 3
\* longest string given to the validator
MaxStrLen == 6
\* window size; index.js:6 sets BATCH_SIZE = 50, the model scales it down and
\* every formula below is stated in terms of BATCH_SIZE, not of its value
BATCH_SIZE == 2

(* Program constants *)
DELAY_BETWEEN_BATCHES == 1000

----------------------------------------------------------------------------
(* Helpers *)

Min(a, b) == IF a < b THEN a ELSE b

Range(s) == {s[k] : k \in DOMAIN s}

\* ceil(n / w) for n >= 0, w >= 1
CeilDiv(n, w) == (n + w - 1) \div w

SeqsUpTo(S, n) == UNION {[1..m -> S] : m \in 0..n}

----------------------------------------------------------------------------
(* isValidEmail: /^[^\s@]+@[^\s@]+\.[^\s@]+$/ *)

Alphabet == {"a", "@", ".", " "}

\* the class [^\s@]
NotSpaceAt(c) == c \notin {" ", "@"}

\* positions at which a match of [^\s@]+ begun at one of the positions P can end
\* (a position is the index of the next character to read)
ClassPlus(s, P) ==
  {q \in 2..(Len(s) + 1) :
     \E p \in P : p < q /\ \A k \in p..(q - 1) : NotSpaceAt(s[k])}

\* positions after reading the literal c from one of the positions P
Literal(s, P, c) == {p + 1 : p \in {x \in P : x <= Len(s) /\ s[x] = c}}

\* the mutant forgets the end anchor $
isValidEmail_unanchored(email) ==
  ClassPlus(email, Literal(email, ClassPlus(email, Literal(email,
     ClassPlus(email, {1}), "@")), ".")) # {}

\* the mutant forgets the "\.[^\s@]+" part
isValidEmail_nodot(email) ==
  (Len(email) + 1) \in ClassPlus(email, Literal(email, ClassPlus(email, {1}), "@"))

isValidEmail(email) ==
  (Len(email) + 1) \in
     ClassPlus(email, Literal(email, ClassPlus(email, Literal(email,
        ClassPlus(email, {1}), "@")), "."))

----------------------------------------------------------------------------
(* Array helpers *)

\* Array.prototype.slice(start, end) for 0 <= start <= end, 0-based, end excluded
slice(arr, start, end) == SubSeq(arr, start + 1, Min(end, Len(arr)))

\* the input positions 1..n as a list; a window is kept as the list of its positions
Positions(list) == [k \in 1..Len(list) |-> k]

\* main: emailList.filter(email => !isValidEmail(email))
invalidEmails_firstOnly(list) ==
  IF Len(list) > 0 /\ ~isValidEmail(list[1]) THEN <<list[1]>> ELSE <<>>

invalidEmails(list) == SelectSeq(list, LAMBDA email : ~isValidEmail(email))

\* main: emailList.length === 0
noRecipients_never(list) == FALSE

noRecipients(list) == Len(list) = 0

----------------------------------------------------------------------------
(* sendBatchEmails: loop arithmetic *)

\* the batch of the iteration at index idx
batchAt_short(list, idx, w) == slice(Positions(list), idx, idx + w - 1)

batchAt(list, idx, w) == slice(Positions(list), idx, idx + w)

\* "if not the last batch"
moreBatches_inclusive(idx, n, w) == idx + w <= n

moreBatches(idx, n, w) == idx + w < n

\* i += BATCH_SIZE
nextIndex_overlap(idx, w) == idx + w - 1

nextIndex(idx, w) == idx + w

\* the sizes of the windows the loop issues for a list of n entries
RECURSIVE loopSizes(_, _, _)
loopSizes(idx, n, w) ==
  IF idx < n
  THEN <<Min(idx + w, n) - idx>> \o loopSizes(nextIndex(idx, w), n, w)
  ELSE <<>>

\* the number of sleeps the loop performs for a list of n entries
RECURSIVE loopSleeps(_, _, _)
loopSleeps(idx, n, w) ==
  IF idx < n
  THEN (IF moreBatches(idx, n, w) THEN 1 ELSE 0) + loopSleeps(nextIndex(idx, w), n, w)
  ELSE 0

----------------------------------------------------------------------------
(* The provider and the result handlers *)

MessageIds == {"mid"}
ProviderErrors == {"Throttling"}

Outcomes == {<<"ok", m>> : m \in MessageIds} \cup {<<"err", e>> : e \in ProviderErrors}

\* sendEmail line 22: new Error(`Invalid email address: ${toAddr}`).message
invalidMessage(toAddr) == <<"Invalid email address: ", toAddr>>

\* .then(messageId => results.successful.push({ email, messageId }))
thenHandler(res, k, email, messageId) ==
  [res EXCEPT !.successful = Append(@, [email |-> email, messageId |-> messageId, pos |-> k])]

\* the mutant swallows the rejection without recording it
catchHandler_swallow(res, k, email, message) == res

\* the mutant records a fixed text instead of error.message
catchHandler_generic(res, k, email, message) ==
  [res EXCEPT !.failed = Append(@, [email |-> email, error |-> "failed", pos |-> k])]

\* .catch(error => results.failed.push({ email, error: error.message }))
catchHandler(res, k, email, message) ==
  [res EXCEPT !.failed = Append(@, [email |-> email, error |-> message, pos |-> k])]

\* await Promise.all(batchPromises) resumes when every promise of the window has
\* settled (each is the result of .catch, so none rejects).
\* The mutant is Promise.race: one settled promise is enough.
allSettled_race(b, st) == \E x \in DOMAIN b : st[b[x]] = "settled"

allSettled(b, st) == \A x \in DOMAIN b : st[b[x]] = "settled"

----------------------------------------------------------------------------
(* Initial states *)

addrA == <<"a", "@", "b", ".", "c">>
addrB == <<"b", "@", "b", ".", "c">>
addrNoDot == <<"a", "@", "b">>
addrNoAt == <<"a", ".", "b">>

\* the arguments the runs draw from: two addresses the validator accepts, one
\* without a dot in the domain and one without an "@"
Pool == {addrA, addrB, addrNoDot, addrNoAt}

Fresh(list, who) ==
  /\ emailList = list
  /\ caller = who
  /\ exitCode = -1
  /\ i = 0
  /\ batch = <<>>
  /\ results = [successful |-> <<>>, failed |-> <<>>]
  /\ status = [k \in 1..Len(list) |-> "pending"]
  /\ sendCalls = [k \in 1..Len(list) |-> 0]
  /\ provider = [k \in 1..Len(list) |-> <<"none">>]
  /\ batches = <<>>
  /\ sleepLog = <<>>

\* node index.js <args>: main() is about to run on process.argv.slice(2)
Init ==
  \E list \in SeqsUpTo(Pool, MaxN) :
    /\ Fresh(list, "main")
    /\ pc = "main"

\* sendBatchEmails called on its own with an arbitrary list
InitDispatch ==
  \E list \in SeqsUpTo(Pool, MaxDirectN) :
    /\ Fresh(list, "direct")
    /\ pc = "loop"

\* main run on a single argument drawn from all strings up to MaxStrLen
InitValid ==
  \E s \in SeqsUpTo(Alphabet, MaxStrLen) :
    /\ Fresh(<<s>>, "main")
    /\ pc = "main"

----------------------------------------------------------------------------
(* Actions *)

\* main, lines 85-103: the argument checks, then the call of sendBatchEmails
\* (results created, i = 0)
Main ==
  /\ pc = "main"
  /\ IF noRecipients(emailList) \/ Len(invalidEmails(emailList)) > 0
     THEN /\ pc' = "exited"
          /\ exitCode' = 1
     ELSE /\ pc' = "loop"
          /\ exitCode' = exitCode
  /\ UNCHANGED <<emailList, caller, i, batch, results, status, sendCalls,
                 provider, batches, sleepLog>>

\* lines 65-73: one iteration up to the await.  batch.map runs sendEmail for
\* every entry synchronously up to its first await: an invalid address throws
\* (line 22) before any call, a valid one calls sesClient.send (line 49).
StartWindow ==
  /\ pc = "loop"
  /\ i < Len(emailList)
  /\ LET b == batchAt(emailList, i, BATCH_SIZE) IN
       /\ batch' = b
       /\ batches' = Append(batches, b)
       /\ status' = [k \in DOMAIN status |->
                       IF k \in Range(b)
                       THEN (IF isValidEmail(emailList[k]) THEN "inflight" ELSE "thrown")
                       ELSE status[k]]
       /\ sendCalls' = [k \in DOMAIN sendCalls |->
                          IF k \in Range(b) /\ isValidEmail(emailList[k])
                          THEN sendCalls[k] + 1
                          ELSE sendCalls[k]]
  /\ pc' = "awaitAll"
  /\ UNCHANGED <<emailList, caller, exitCode, i, results, provider, sleepLog>>

\* lines 49-55 and 69-70: the provider answers the send of position k and the
\* handler attached in map records it.  The answer and the push are microtasks
\* of one chain; no step of the dispatcher can run between them, because
\* Promise.all waits for the promise the handler returns.
SendSettles(k, o) ==
  /\ k \in DOMAIN status
  /\ status[k] = "inflight"
  /\ provider' = [provider EXCEPT ![k] = o]
  /\ status' = [status EXCEPT ![k] = "settled"]
  /\ results' = IF o[1] = "ok"
                THEN thenHandler(results, k, emailList[k], o[2])
                ELSE catchHandler(results, k, emailList[k], o[2])
  /\ UNCHANGED <<emailList, caller, pc, exitCode, i, batch, sendCalls, batches, sleepLog>>

\* lines 21-23 and 70: the rejection of sendEmail for an invalid address reaches
\* the catch handler
InvalidRejects(k) ==
  /\ k \in DOMAIN status
  /\ status[k] = "thrown"
  /\ status' = [status EXCEPT ![k] = "settled"]
  /\ results' = catchHandler(results, k, emailList[k], invalidMessage(emailList[k]))
  /\ UNCHANGED <<emailList, caller, pc, exitCode, i, batch, sendCalls, provider,
                 batches, sleepLog>>

\* lines 73-78: Promise.all is fulfilled; sleep if this was not the last batch,
\* else go on to the loop's increment
AfterAll ==
  /\ pc = "awaitAll"
  /\ allSettled(batch, status)
  /\ IF moreBatches(i, Len(emailList), BATCH_SIZE)
     THEN /\ pc' = "sleeping"
          /\ sleepLog' = Append(sleepLog, [ms |-> DELAY_BETWEEN_BATCHES, after |-> Len(batches)])
          /\ i' = i
     ELSE /\ pc' = "loop"
          /\ sleepLog' = sleepLog
          /\ i' = nextIndex(i, BATCH_SIZE)
  /\ UNCHANGED <<emailList, caller, exitCode, batch, results, status, sendCalls,
                 provider, batches>>

\* lines 18, 77, 65: the timer of sleep fires and the loop increments
TimerFires ==
  /\ pc = "sleeping"
  /\ pc' = "loop"
  /\ i' = nextIndex(i, BATCH_SIZE)
  /\ UNCHANGED <<emailList, caller, exitCode, batch, results, status, sendCalls,
                 provider, batches, sleepLog>>

\* lines 65, 81: the loop condition fails and results is returned
Return ==
  /\ pc = "loop"
  /\ ~(i < Len(emailList))
  /\ pc' = "returned"
  /\ UNCHANGED <<emailList, caller, exitCode, i, batch, results, status, sendCalls,
                 provider, batches, sleepLog>>

\* lines 110-124: main prints the summary and returns; with nothing pending the
\* process ends with status 0
MainReport ==
  /\ pc = "returned"
  /\ caller = "main"
  /\ pc' = "exited"
  /\ exitCode' = 0
  /\ UNCHANGED <<emailList, caller, i, batch, results, status, sendCalls,
                 provider, batches, sleepLog>>

Settle == \E k \in 1..Len(emailList) : \E o \in Outcomes : SendSettles(k, o)

Reject == \E k \in 1..Len(emailList) : InvalidRejects(k)

Next ==
  \/ Main
  \/ StartWindow
  \/ Settle
  \/ AfterAll
  \/ TimerFires
  \/ Return
  \/ MainReport

NextDispatch ==
  \/ StartWindow
  \/ Settle
  \/ Reject
  \/ AfterAll
  \/ TimerFires
  \/ Return

NextValid == Main

Spec == Init /\ [][Next]_vars

SpecDispatch == InitDispatch /\ [][NextDispatch]_vars

SpecValid == InitValid /\ [][NextValid]_vars

----------------------------------------------------------------------------
(* Vocabulary of the properties *)

N == Len(emailList)

\* main ran its checks and the run went on into the dispatcher
Passed == caller = "main" /\ pc # "main" /\ exitCode # 1

\* the dispatcher has returned
Done == pc \in {"returned", "exited"} /\ exitCode # 1

InFlight == {k \in 1..N : status[k] = "inflight"}

Issued == UNION {Range(batches[j]) : j \in DOMAIN batches}

SuccessAt(k) == {x \in DOMAIN results.successful : results.successful[x].pos = k}

FailureAt(k) == {x \in DOMAIN results.failed : results.failed[x].pos = k}

\* the shape of an accepted address, stated without the regular expression:
\* no whitespace, exactly one "@", something before it, and after it a "." that
\* has at least one character on either side
HasAddressShape(s) ==
  /\ \A k \in DOMAIN s : s[k] # " "
  /\ Cardinality({k \in DOMAIN s : s[k] = "@"}) = 1
  /\ LET a == CHOOSE k \in DOMAIN s : s[k] = "@" IN
       /\ a >= 2
       /\ \E d \in (a + 2)..(Len(s) - 1) : s[d] = "."

\* the shape the data model words: local-part "@" domain-part, both non-empty,
\* no whitespace
DataModelShape(s) ==
  /\ \A k \in DOMAIN s : s[k] # " "
  /\ \E a \in 2..(Len(s) - 1) : s[a] = "@"

SomeMalformed == \E k \in 1..N : ~HasAddressShape(emailList[k])

----------------------------------------------------------------------------
(* C1 *)

\* C1: when the dispatcher has returned from a run that passed main's checks,
\* |successful| + |failed| = N and every input position is recorded exactly once,
\* in exactly one of the two sequences; before that, exactly the settled
\* positions are recorded.
C1_CountEqualsN ==
  Passed =>
    /\ \A k \in 1..N :
         Cardinality(SuccessAt(k)) + Cardinality(FailureAt(k))
           = (IF status[k] = "settled" THEN 1 ELSE 0)
    /\ Done => Len(results.successful) + Len(results.failed) = N

C1_Witness ==
  /\ Passed /\ Done
  /\ N > BATCH_SIZE
  /\ Len(results.successful) >= 1
  /\ Len(results.failed) >= 1

----------------------------------------------------------------------------
(* C2 *)

\* C2: a window is issued only when every send of every earlier window has
\* settled, nothing outside the issued windows has been sent, and at most
\* BATCH_SIZE sends are in flight.
C2_WindowsSequential ==
  Passed =>
    /\ \A a, b \in DOMAIN batches :
         a < b => \A k \in Range(batches[a]) : status[k] = "settled"
    /\ \A k \in 1..N : k \notin Issued => status[k] = "pending" /\ sendCalls[k] = 0
    /\ Cardinality(InFlight) <= BATCH_SIZE

C2_Witness ==
  /\ Passed
  /\ Len(batches) >= 2
  /\ Cardinality(InFlight) = BATCH_SIZE

----------------------------------------------------------------------------
(* C3 *)

\* C3: a send the provider rejected is recorded in failed with the recipient
\* and the provider's message text, a send that succeeded is recorded in
\* successful with its message id, whatever its siblings did; the run never
\* stops half way (some step is enabled until main has reported) and it ends
\* with every window processed and status 0.
C3_RejectionIsContained ==
  Passed =>
    /\ \A k \in 1..N :
         /\ provider[k][1] = "err" =>
              /\ SuccessAt(k) = {}
              /\ \E x \in FailureAt(k) :
                   /\ results.failed[x].email = emailList[k]
                   /\ results.failed[x].error = provider[k][2]
         /\ provider[k][1] = "ok" =>
              /\ FailureAt(k) = {}
              /\ \E x \in SuccessAt(k) :
                   /\ results.successful[x].email = emailList[k]
                   /\ results.successful[x].messageId = provider[k][2]
    /\ pc # "exited" => ENABLED Next
    /\ pc = "exited" =>
         /\ exitCode = 0
         /\ \A k \in 1..N : status[k] = "settled" /\ provider[k][1] # "none"

C3_Witness ==
  /\ Passed /\ pc = "exited"
  /\ \E a, b \in DOMAIN batches :
       /\ a < b
       /\ \E k1, k2 \in Range(batches[a]) :
            provider[k1][1] = "err" /\ provider[k2][1] = "ok"
       /\ \E k3 \in Range(batches[b]) : provider[k3][1] = "ok"

----------------------------------------------------------------------------
(* C4 *)

\* C4: when main's argument list holds a malformed address, at any position,
\* sesClient.send is never called for any recipient and the run ends in
\* process.exit(1) without entering the dispatcher.
C4_NoSendOnMalformed ==
  (caller = "main" /\ SomeMalformed) =>
    /\ \A k \in 1..N : sendCalls[k] = 0 /\ status[k] = "pending"
    /\ batches = <<>>
    /\ pc \in {"main", "exited"}
    /\ pc = "exited" => exitCode = 1

C4_Witness ==
  /\ caller = "main" /\ pc = "exited" /\ exitCode = 1
  /\ N >= 3
  /\ HasAddressShape(emailList[1])
  /\ ~HasAddressShape(emailList[N])
  /\ \A k \in 1..(N - 1) : HasAddressShape(emailList[k])

----------------------------------------------------------------------------
(* C5 *)

\* C5 as claimed: sendBatchEmails, handed a list with a malformed entry, issues
\* no network call at all and records no per-item failure.
C5_DispatcherFailsFast ==
  (caller = "direct" /\ SomeMalformed) =>
    /\ \A k \in 1..N : sendCalls[k] = 0
    /\ results.failed = <<>>

\* C5 amended: sendBatchEmails does not check its list.  A malformed entry gets
\* no network call and is recorded in failed with the text "Invalid email
\* address: <entry>"; every well-formed entry of the same list is still sent to
\* exactly once.
C5_PerItemRejection ==
  caller = "direct" =>
    \A k \in 1..N :
      /\ ~HasAddressShape(emailList[k]) =>
           /\ sendCalls[k] = 0
           /\ provider[k][1] = "none"
           /\ SuccessAt(k) = {}
           /\ status[k] = "settled" =>
                \E x \in FailureAt(k) :
                  /\ results.failed[x].email = emailList[k]
                  /\ results.failed[x].error = invalidMessage(emailList[k])
           /\ pc = "returned" => status[k] = "settled"
      /\ HasAddressShape(emailList[k]) =>
           /\ status[k] # "thrown"
           /\ pc = "returned" => sendCalls[k] = 1 /\ provider[k][1] # "none"

C5_Witness ==
  /\ caller = "direct" /\ pc = "returned"
  /\ \E k1, k2 \in 1..N :
       /\ k1 < k2
       /\ ~HasAddressShape(emailList[k1]) /\ FailureAt(k1) # {}
       /\ HasAddressShape(emailList[k2]) /\ sendCalls[k2] = 1 /\ SuccessAt(k2) # {}

----------------------------------------------------------------------------
(* C6 *)

\* C6: window j (counted from 1) is the input slice of the positions
\* (j-1)*W+1 .. min(j*W, N); so every window has W entries except possibly the
\* last, which has N mod W, or W when W divides N; a finished run has issued
\* ceil(N/W) windows; and for N = 120, W = 50 the loop issues windows of
\* 50, 50 and 20.
C6_Windows ==
  Passed =>
    /\ \A j \in DOMAIN batches :
         /\ batches[j] =
              [x \in 1..(Min(j * BATCH_SIZE, N) - (j - 1) * BATCH_SIZE) |->
                 (j - 1) * BATCH_SIZE + x]
         /\ j < CeilDiv(N, BATCH_SIZE) => Len(batches[j]) = BATCH_SIZE
         /\ j = CeilDiv(N, BATCH_SIZE) =>
              Len(batches[j]) = (IF N % BATCH_SIZE = 0 THEN BATCH_SIZE ELSE N % BATCH_SIZE)
    /\ Len(batches) <= CeilDiv(N, BATCH_SIZE)
    /\ Done =>
         /\ Len(batches) = CeilDiv(N, BATCH_SIZE)
         /\ loopSizes(0, N, BATCH_SIZE) = [j \in DOMAIN batches |-> Len(batches[j])]
    /\ loopSizes(0, 120, 50) = <<50, 50, 20>>

C6_Witness ==
  /\ Passed /\ Done
  /\ Len(batches) >= 3
  /\ Len(batches[Len(batches)]) < BATCH_SIZE

----------------------------------------------------------------------------
(* C7 *)

\* C7: the x-th pause is a timer of DELAY_BETWEEN_BATCHES set after window x has
\* fully settled, and window x+1 starts only after it; while the dispatcher
\* sleeps nothing is in flight; a finished run of ceil(N/W) windows has made
\* ceil(N/W) - 1 pauses, none after the last window; N = 120, W = 50 gives two.
C7_Pauses ==
  Passed =>
    /\ \A x \in DOMAIN sleepLog :
         /\ sleepLog[x].ms = DELAY_BETWEEN_BATCHES
         /\ sleepLog[x].after = x
         /\ x < CeilDiv(N, BATCH_SIZE)
         /\ \A k \in Range(batches[x]) : status[k] = "settled"
    /\ pc = "awaitAll" => Len(sleepLog) = Len(batches) - 1
    /\ pc = "sleeping" => Len(sleepLog) = Len(batches) /\ InFlight = {}
    /\ Done => Len(sleepLog) = CeilDiv(N, BATCH_SIZE) - 1
    /\ Done => Len(sleepLog) = loopSleeps(0, N, BATCH_SIZE)
    /\ loopSleeps(0, 120, 50) = 2

C7_Witness ==
  /\ Passed /\ Done
  /\ N % BATCH_SIZE = 0
  /\ N >= 2 * BATCH_SIZE
  /\ Len(sleepLog) = (N \div BATCH_SIZE) - 1

----------------------------------------------------------------------------
(* C8 *)

\* C8: a run of main that has ended has status 1 exactly when the argument list
\* is empty or holds a malformed address, and then no send was issued; every
\* other run ends with status 0, however many sends failed.
C8_ExitStatus ==
  (caller = "main" /\ pc = "exited") =>
    /\ exitCode \in {0, 1}
    /\ exitCode = 1 <=> (N = 0 \/ SomeMalformed)
    /\ exitCode = 1 => \A k \in 1..N : sendCalls[k] = 0
    /\ N = 0 => exitCode = 1 /\ batches = <<>>

C8_Witness ==
  /\ caller = "main" /\ pc = "exited" /\ exitCode = 0
  /\ N > BATCH_SIZE
  /\ results.successful = <<>>
  /\ Len(results.failed) = N

----------------------------------------------------------------------------
(* C9 *)

\* C9: in a run that passed main's checks sesClient.send is called at most once
\* per input position, exactly once for every position of an issued window
\* (a settled send, failed or not, is never sent again), and exactly once for
\* every position when the dispatcher has returned.
C9_OneCallPerRecipient ==
  Passed =>
    /\ \A k \in 1..N :
         /\ sendCalls[k] <= 1
         /\ k \in Issued => sendCalls[k] = 1
         /\ Done => sendCalls[k] = 1
    /\ \A a, b \in DOMAIN batches : a # b => Range(batches[a]) \cap Range(batches[b]) = {}

C9_Witness ==
  /\ Passed /\ Done
  /\ N > BATCH_SIZE
  /\ \E k \in 1..N : provider[k][1] = "err" /\ k <= BATCH_SIZE /\ sendCalls[k] = 1

----------------------------------------------------------------------------
(* C10 *)

\* C10 as claimed: main lets its argument through to the dispatcher exactly when
\* it has the data model's shape (local-part "@" domain-part, both non-empty,
\* no whitespace).
C10_AcceptsDataModelShape ==
  pc # "main" => ((pc = "loop") <=> DataModelShape(emailList[1]))

\* C10 amended: the validator accepts a string exactly when it has no
\* whitespace, exactly one "@", a non-empty local part before it, and after it a
\* domain part holding a "." with at least one character before and after it;
\* every other string is rejected by main before anything is dispatched.
C10_AcceptsAddressShape ==
  /\ pc # "main" => ((pc = "loop") <=> HasAddressShape(emailList[1]))
  /\ pc = "exited" => exitCode = 1 /\ sendCalls[1] = 0
  /\ isValidEmail(emailList[1]) <=> HasAddressShape(emailList[1])

C10_Witness ==
  /\ pc = "loop"
  /\ Len(emailList[1]) = MaxStrLen
  /\ emailList[1][1] = "."
  /\ emailList[1][Len(emailList[1]) - 1] = "."

====
